---- MODULE Spec2Model ----
(***************************************************************************)
(* The checkout page (src/pages/Index.tsx) and its helpers (lib/utils):    *)
(* the wallet connection, the asset fetch started by the effect, the       *)
(* default and manual selection with its price conversion, and the         *)
(* payment handler prepare -> sign -> broadcast -> confirm.                *)
(*                                                                         *)
(* Each await of the source is a position of the model: the part of a      *)
(* handler up to its next await is one action, and the continuation that   *)
(* runs when the awaited answer arrives is the next one.  The answers are  *)
(* inputs of the environment.                                              *)
(***************************************************************************)
EXTENDS Integers, Sequences, FiniteSets, TLC

(***************************************************************************)
(* Bounds of the model.                                                    *)
(***************************************************************************)
\* asset fetches that may be awaiting their answer at the same time
MaxPending == 2

\* the conversion's inputs: raw balances 0..MaxBalance, decimals
\* 0..MaxDecimals, total values 0..MaxRefPrice, totals 0..MaxTotal
MaxBalance == 3

MaxDecimals == 1

MaxRefPrice == 3

MaxTotal == 3

(***************************************************************************)
(* JavaScript values.  A number is a record so that every value a field    *)
(* can hold is comparable: a finite non-negative rational n/d in lowest    *)
(* terms, or one of NaN, Infinity, undefined, null.                        *)
(***************************************************************************)
RECURSIVE GCD(_, _)
GCD(a, b) == IF b = 0 THEN a ELSE GCD(b, a % b)

Fin(n, d) ==
    LET g == GCD(n, d)
    IN  [kind |-> "num", n |-> n \div g, d |-> d \div g]

NaN == [kind |-> "NaN", n |-> 0, d |-> 1]

Infinity == [kind |-> "Infinity", n |-> 0, d |-> 1]

UndefinedNum == [kind |-> "undefined", n |-> 0, d |-> 1]

NullNum == [kind |-> "null", n |-> 0, d |-> 1]

\* a string field that is null
Null == "null"

\* ToNumber: undefined becomes NaN, null becomes 0
ToNumber(x) ==
    CASE x.kind = "undefined" -> NaN
      [] x.kind = "null" -> Fin(0, 1)
      [] OTHER -> x

IsZero(x) == x.kind = "num" /\ x.n = 0

\* the operator * on two values
Mul(x, y) ==
    LET a == ToNumber(x)
        b == ToNumber(y)
    IN  CASE a.kind = "NaN" \/ b.kind = "NaN" -> NaN
          [] a.kind = "Infinity" \/ b.kind = "Infinity" ->
                IF IsZero(a) \/ IsZero(b) THEN NaN ELSE Infinity
          [] OTHER -> Fin(a.n * b.n, a.d * b.d)

\* the operator / on two values
Div(x, y) ==
    LET a == ToNumber(x)
        b == ToNumber(y)
    IN  CASE a.kind = "NaN" \/ b.kind = "NaN" -> NaN
          [] a.kind = "Infinity" ->
                IF b.kind = "Infinity" THEN NaN ELSE Infinity
          [] b.kind = "Infinity" -> Fin(0, 1)
          [] IsZero(b) -> IF IsZero(a) THEN NaN ELSE Infinity
          [] OTHER -> Fin(a.n * b.d, a.d * b.n)

RECURSIVE Pow10(_)
Pow10(e) == IF e = 0 THEN 1 ELSE 10 * Pow10(e - 1)

\* Math.pow(10, -decimals); decimals is a number of digits or undefined
PowNeg10(decimals) ==
    IF decimals.kind = "num" THEN Fin(1, Pow10(decimals.n)) ELSE NaN

\* JSON.parse(JSON.stringify(v)) of a number field: NaN and Infinity are
\* written as null, an undefined field is left out and reads as undefined
JsonNum(v) ==
    IF v.kind \in {"NaN", "Infinity"} THEN NullNum ELSE v

(***************************************************************************)
(* The catalog.                                                            *)
(***************************************************************************)
items == << [id |-> 1, price |-> 10], [id |-> 2, price |-> 5] >>

RECURSIVE SumPrices(_)
SumPrices(s) == IF s = <<>> THEN 0 ELSE Head(s).price + SumPrices(Tail(s))

totalPrice == Fin(SumPrices(items), 1)

(***************************************************************************)
(* The indexing service's answers: the items of getAssetsByOwner.          *)
(***************************************************************************)
RawItem(itf, name, symbol, balance, decimals, total, id) ==
    [interface |-> itf, name |-> name, symbol |-> symbol, balance |-> balance,
     decimals |-> decimals, total_price |-> total, id |-> id]

\* balance 100 worth 50 in all
rawA == RawItem("FungibleToken", "Alpha", "ALP", Fin(100, 1), Fin(0, 1), Fin(50, 1), "mintA")

\* balance 2.0 worth 0
rawB == RawItem("FungibleToken", "Beta", "BET", Fin(20, 1), Fin(1, 1), Fin(0, 1), "mintB")

\* no price_info
rawC == RawItem("FungibleToken", "Gamma", "GAM", Fin(5, 1), Fin(0, 1), UndefinedNum, "mintC")

\* balance 3.00 worth 9 in all
rawD == RawItem("FungibleToken", "Delta", "DEL", Fin(300, 1), Fin(2, 1), Fin(9, 1), "mintD")

\* not fungible
rawN == RawItem("V1_NFT", "Picture", "PIC", UndefinedNum, UndefinedNum, UndefinedNum, "mintN")

RpcItemLists ==
    { <<>>, <<rawN>>, <<rawN, rawA, rawB>>, <<rawC, rawD>> }

\* what getAssetsByOwner can answer for an ownerAddress: the two accounts
\* hold different mints, and what an account holds changes with time
AssetsOwnedBy(ownerAddress) ==
    IF ownerAddress = "key1" THEN { <<>>, <<rawN>>, <<rawN, rawA, rawB>> }
    ELSE { <<>>, <<rawC, rawD>> }

\* the ids of the items an account can hold
MintsOwnedBy(ownerAddress) ==
    UNION { { rawItems[j].id : j \in 1..Len(rawItems) } :
            rawItems \in AssetsOwnedBy(ownerAddress) }

(***************************************************************************)
(* lib/utils: getTokensInUsersWallet.                                      *)
(***************************************************************************)
\* the record built for one fungible item
TokenOf(token) ==
    [name |-> token.name,
     symbol |-> token.symbol,
     balance |-> Mul(token.balance, PowNeg10(token.decimals)),
     decimals |-> token.decimals,
     usdc_price |-> token.total_price,
     mint |-> token.id]

RECURSIVE getTokensInUsersWallet(_)
getTokensInUsersWallet(rawItems) ==
    IF rawItems = <<>> THEN <<>>
    ELSE IF Head(rawItems).interface = "FungibleToken"
         THEN <<TokenOf(Head(rawItems))>> \o getTokensInUsersWallet(Tail(rawItems))
         ELSE getTokensInUsersWallet(Tail(rawItems))

(***************************************************************************)
(* pages/Index.tsx: the state of the component.                            *)
(***************************************************************************)
Keys == {"key1", "key2"}

NoKey == "null"

VARIABLES
    publicKey,      \* useWallet().publicKey: a key, or NoKey
    connected,      \* useWallet().connected
    loading,        \* useState(false)
    tokens,         \* useState(null): [isNull, list]
    tokenSelected,  \* useState({name: null, price: null, mint: null})
    pending,        \* the calls of fetchTokensList awaiting their answer, oldest first
    pc,             \* where handlePayment is suspended: idle, prepare, sign, broadcast, confirm
    request,        \* what the running handlePayment gave to getPreparedTransaction
    lost,           \* the request the running handlePayment awaits will get no answer
    sent,           \* how many requests the running handlePayment has made, per stage
    call,           \* history: the outbound operation that step started
    answer,         \* history: the answer that step received, [stage, out]
    toast,          \* history: the notification that step showed
    latest,         \* history: what the most recently started fetch answered
    fetchFailed     \* history: a fetch failed and none has succeeded since

vars == <<publicKey, connected, loading, tokens, tokenSelected, pending, pc, request,
          lost, sent, call, answer, toast, latest, fetchFailed>>

\* the variables of the wallet, of the asset list and of handlePayment
walletVars == <<publicKey, connected>>

assetVars == <<tokens, tokenSelected>>

fetchVars == <<pending, latest, fetchFailed>>

paymentVars == <<loading, pc, request, lost, sent>>

NullTokens == [isNull |-> TRUE, list |-> <<>>]

TokensOf(list) == [isNull |-> FALSE, list |-> list]

NoSelection == [name |-> Null, price |-> NullNum, mint |-> Null]

NoAnswer == [stage |-> "none", out |-> "none", status |-> "none"]

\* no handlePayment is running
NoRequest == [publicKey |-> NoKey, mint |-> Null]

NoneSent == [prepare |-> 0, sign |-> 0, broadcast |-> 0, confirm |-> 0]

Init ==
    /\ publicKey = NoKey
    /\ connected = FALSE
    /\ loading = FALSE
    /\ tokens = NullTokens
    /\ tokenSelected = NoSelection
    /\ pending = <<>>
    /\ pc = "idle"
    /\ request = NoRequest
    /\ lost = FALSE
    /\ sent = NoneSent
    /\ call = "none"
    /\ answer = NoAnswer
    /\ toast = "none"
    /\ latest = [status |-> "none", list |-> <<>>]
    /\ fetchFailed = FALSE

(***************************************************************************)
(* The price conversion and the two ways a selection is made.              *)
(***************************************************************************)
\* a conversion that divides the total by the price alone
PriceOf_perUnit(total, balance, usdc_price) == Div(total, usdc_price)

\* a conversion that multiplies by the price
PriceOf_multiplied(total, balance, usdc_price) == Mul(Mul(total, balance), usdc_price)

\* (total * balance) / usdc_price
PriceOf(total, balance, usdc_price) == Div(Mul(total, balance), usdc_price)

\* (totalPrice * balance) / usdc_price
Price(balance, usdc_price) == PriceOf(totalPrice, balance, usdc_price)

\* fetchTokensList: the selection made from usertokens[0]
DefaultSelection(usertokens) ==
    [name |-> usertokens[1].name,
     price |-> Price(usertokens[1].balance, usertokens[1].usdc_price),
     mint |-> usertokens[1].mint]

\* the option's value, JSON.stringify(token), read back by JSON.parse
JsonToken(token) ==
    [name |-> token.name,
     symbol |-> token.symbol,
     balance |-> JsonNum(token.balance),
     decimals |-> JsonNum(token.decimals),
     usdc_price |-> JsonNum(token.usdc_price),
     mint |-> token.mint]

\* a calculatePrice that sets price and mint over the previous selection
ManualSelection_merged(token) ==
    LET tokenItem == JsonToken(token)
    IN  [name |-> tokenSelected.name,
         price |-> Price(tokenItem.balance, tokenItem.usdc_price),
         mint |-> tokenItem.mint]

\* calculatePrice: the selection made from the option picked
ManualSelection(token) ==
    LET tokenItem == JsonToken(token)
    IN  [name |-> tokenItem.symbol,
         price |-> Price(tokenItem.balance, tokenItem.usdc_price),
         mint |-> tokenItem.mint]

(***************************************************************************)
(* The wallet and the effect that starts fetchTokensList.                  *)
(***************************************************************************)
\* a step that starts no operation, receives no answer and shows nothing
Quiet == call' = "none" /\ answer' = NoAnswer /\ toast' = "none"

Remove(s, i) == SubSeq(s, 1, i - 1) \o SubSeq(s, i + 1, Len(s))

Superseded(s) == [j \in 1..Len(s) |-> [s[j] EXCEPT !.latest = FALSE]]

\* the wallet connects, or switches to another account: the effect runs
\* with connected true and awaits getTokensInUsersWallet
Connect(k) ==
    /\ k # publicKey
    /\ Len(pending) < MaxPending
    /\ publicKey' = k
    /\ connected' = TRUE
    /\ pending' = Append(Superseded(pending), [key |-> k, latest |-> TRUE])
    /\ latest' = [status |-> "pending", list |-> <<>>]
    /\ call' = "fetch"
    /\ answer' = NoAnswer
    /\ toast' = "none"
    /\ UNCHANGED <<assetVars, paymentVars, fetchFailed>>

\* the wallet disconnects: the effect runs and returns at "if (!connected)"
Disconnect ==
    /\ publicKey # NoKey
    /\ publicKey' = NoKey
    /\ connected' = FALSE
    /\ Quiet
    /\ UNCHANGED <<assetVars, fetchVars, paymentVars>>

\* fetch() resolves for every HTTP status; the code reads neither
\* response.ok nor response.status
HttpStatuses == {"ok", "nonSuccess"}

\* the answer of a fetch arrives with a body that has result.items:
\* setTokens, then the default selection
FetchResolve(i, status, rawItems) ==
    LET usertokens == getTokensInUsersWallet(rawItems)
    IN  /\ i \in 1..Len(pending)
        /\ pending' = Remove(pending, i)
        /\ tokens' = TokensOf(usertokens)
        /\ tokenSelected' = IF Len(usertokens) <= 0 THEN tokenSelected
                            ELSE DefaultSelection(usertokens)
        /\ latest' = IF pending[i].latest THEN [status |-> "ok", list |-> usertokens]
                     ELSE latest
        /\ fetchFailed' = FALSE
        /\ call' = "none"
        /\ answer' = [stage |-> "fetch", out |-> "ok", status |-> status]
        /\ toast' = "none"
        /\ UNCHANGED <<walletVars, paymentVars>>

\* the ways a fetch throws: fetch() rejects, or the body is not JSON or has
\* no result.items
FetchErrors == {"networkError", "malformed"}

\* the HTTP statuses an answer of outcome out can have: none where fetch()
\* rejected
StatusesOf(out) == IF out = "networkError" THEN {"none"} ELSE HttpStatuses

\* a fetch throws inside fetchTokensList, which has no handler: the promise
\* the effect dropped is rejected and no state is set
FetchReject(i, err, status) ==
    /\ i \in 1..Len(pending)
    /\ pending' = Remove(pending, i)
    /\ latest' = IF pending[i].latest THEN [status |-> "failed", list |-> <<>>]
                 ELSE latest
    /\ fetchFailed' = TRUE
    /\ call' = "none"
    /\ answer' = [stage |-> "fetch", out |-> err, status |-> status]
    /\ toast' = "none"
    /\ UNCHANGED <<walletVars, assetVars, paymentVars>>

\* the user picks option i of the select, which has another option to leave
calculatePrice(i) ==
    /\ ~tokens.isNull
    /\ Len(tokens.list) >= 2
    /\ i \in 1..Len(tokens.list)
    /\ tokenSelected' = ManualSelection(tokens.list[i])
    /\ Quiet
    /\ UNCHANGED <<walletVars, tokens, fetchVars, paymentVars>>

(***************************************************************************)
(* handlePayment.                                                          *)
(***************************************************************************)
\* the submit button: disabled={!connected || loading}
\* a button that stays enabled while a submit runs
ButtonDisabled_loadingIgnored == ~connected

ButtonDisabled == ~connected \/ loading

\* catch: the "Payment failed" toast
catchBlock == toast' = "failed"

\* a handler without the finally block
finallyBlock_missing == loading' = loading

\* finally: setLoading(false)
finallyBlock == loading' = FALSE

\* sendRawTransaction's option maxRetries
maxRetries == 10

\* the handler returns
Return ==
    /\ pc' = "idle"
    /\ request' = NoRequest
    /\ lost' = FALSE
    /\ sent' = NoneSent
    /\ call' = "none"

\* a catch block that starts the handler's work again
Failed_retries ==
    /\ catchBlock
    /\ pc' = "prepare"
    /\ call' = "prepare"
    /\ sent' = [sent EXCEPT !.prepare = @ + 1]
    /\ lost' = FALSE
    /\ UNCHANGED <<loading, request>>

\* the handler ends in its catch and finally blocks
Failed ==
    /\ catchBlock
    /\ finallyBlock
    /\ Return

\* the handler goes on to its next await
Proceed(stage) ==
    /\ pc' = stage
    /\ call' = stage
    /\ toast' = "none"
    /\ sent' = [sent EXCEPT ![stage] = @ + 1]
    /\ UNCHANGED <<loading, request, lost>>

\* handlePayment up to its first await
handlePayment ==
    IF publicKey = NoKey
    THEN /\ toast' = "connect"
         /\ call' = "none"
         /\ UNCHANGED paymentVars
    ELSE /\ loading' = TRUE
         /\ pc' = "prepare"
         /\ call' = "prepare"
         /\ request' = [publicKey |-> publicKey, mint |-> tokenSelected.mint]
         /\ toast' = "none"
         /\ sent' = [NoneSent EXCEPT !.prepare = 1]
         /\ UNCHANGED lost

\* the user asks to submit: a click on the button, which the browser drops
\* when the button is disabled, so that nothing runs
SubmitClick ==
    IF ButtonDisabled
    THEN UNCHANGED vars
    ELSE /\ handlePayment
         /\ answer' = NoAnswer
         /\ UNCHANGED <<walletVars, assetVars, fetchVars>>

\* what the preparation service can answer: a payload; no answer at all
\* (fetch rejects); a body without "transaction" (an error detail)
PrepareOutcomes == {"ok", "networkError", "noTransaction"}

\* a preparation that throws on a failed fetch only
PrepareThrows_networkOnly(out) == out = "networkError"

\* getPreparedTransaction or the deserialize after it throws: of an
\* undefined data.transaction, Buffer.from throws
PrepareThrows(out) == out # "ok"

PrepareAnswer(out, status) ==
    /\ pc = "prepare"
    /\ ~lost
    /\ answer' = [stage |-> "prepare", out |-> out, status |-> status]
    /\ IF PrepareThrows(out) THEN Failed ELSE Proceed("sign")
    /\ UNCHANGED <<walletVars, assetVars, fetchVars>>

\* the wallet signs, or the user rejects
SignOutcomes == {"ok", "rejected"}

SignThrows(out) == out # "ok"

SignAnswer(out) ==
    /\ pc = "sign"
    /\ answer' = [stage |-> "sign", out |-> out, status |-> "none"]
    /\ IF SignThrows(out) THEN Failed ELSE Proceed("broadcast")
    /\ UNCHANGED <<walletVars, assetVars, fetchVars>>

\* sendRawTransaction returns a signature, or throws
BroadcastOutcomes == {"ok", "error"}

BroadcastThrows(out) == out # "ok"

BroadcastAnswer(out) ==
    /\ pc = "broadcast"
    /\ ~lost
    /\ answer' = [stage |-> "broadcast", out |-> out, status |-> "none"]
    /\ IF BroadcastThrows(out) THEN Failed ELSE Proceed("confirm")
    /\ UNCHANGED <<walletVars, assetVars, fetchVars>>

\* confirmTransaction returns a confirmation without value.err ("ok") or
\* with it ("err"), or throws ("error")
ConfirmOutcomes == {"ok", "err", "error"}

\* a handler that does not look at confirmation.value.err
ConfirmThrows_errIgnored(out) == out = "error"

\* the call throws, or the handler throws on confirmation.value.err
ConfirmThrows(out) == out # "ok"

ConfirmAnswer(out) ==
    /\ pc = "confirm"
    /\ ~lost
    /\ answer' = [stage |-> "confirm", out |-> out, status |-> "none"]
    /\ IF ConfirmThrows(out)
       THEN Failed
       ELSE /\ toast' = "success"
            /\ finallyBlock
            /\ Return
    /\ UNCHANGED <<walletVars, assetVars, fetchVars>>

\* the stages of handlePayment that await a request sent over the network
NetworkStages == {"prepare", "broadcast", "confirm"}

\* the request in flight gets no answer, now or later: the handler, which
\* sets no timer, stays at its await
AnswerLost ==
    /\ pc \in NetworkStages
    /\ ~lost
    /\ lost' = TRUE
    /\ Quiet
    /\ UNCHANGED <<walletVars, assetVars, fetchVars, loading, pc, request,
                   sent>>

(***************************************************************************)
(* The specifications.                                                     *)
(***************************************************************************)
Next ==
    \/ \E k \in Keys : Connect(k)
    \/ Disconnect
    \/ \E i \in 1..MaxPending + 1, status \in HttpStatuses, rawItems \in RpcItemLists :
          /\ i \in 1..Len(pending)
          /\ rawItems \in AssetsOwnedBy(pending[i].key)
          /\ FetchResolve(i, status, rawItems)
    \/ \E i \in 1..MaxPending + 1, err \in FetchErrors :
          \E status \in StatusesOf(err) : FetchReject(i, err, status)
    \/ \E i \in 1..3 : calculatePrice(i)
    \/ SubmitClick
    \/ \E out \in PrepareOutcomes :
          \E status \in StatusesOf(out) : PrepareAnswer(out, status)
    \/ \E out \in SignOutcomes : SignAnswer(out)
    \/ \E out \in BroadcastOutcomes : BroadcastAnswer(out)
    \/ \E out \in ConfirmOutcomes : ConfirmAnswer(out)
    \/ AnswerLost

Spec == Init /\ [][Next]_vars

(***************************************************************************)
(* The conversion on its own: one wallet, one fetch answered with two      *)
(* fungible items drawn from bounded sets, then manual picks.              *)
(***************************************************************************)
ConvBalances == (0..MaxBalance) \cup {100}

ConvRefPrices == (0..MaxRefPrice) \cup {50}

ConvTotalPrices == {UndefinedNum} \cup {Fin(p, 1) : p \in ConvRefPrices}

\* the fungible items at position pos of an answer
ConvItems(pos) ==
    { RawItem("FungibleToken", pos.name, pos.symbol, Fin(b, 1), Fin(dec, 1), total, pos.mint) :
        b \in ConvBalances, dec \in 0..MaxDecimals, total \in ConvTotalPrices }

ConvLists ==
    { <<first, second>> :
        first \in ConvItems([name |-> "One", symbol |-> "ONE", mint |-> "mint1"]),
        second \in ConvItems([name |-> "Two", symbol |-> "TWO", mint |-> "mint2"]) }

\* the wallet has connected and the effect awaits its fetch
ConvInit ==
    /\ publicKey = "key1"
    /\ connected = TRUE
    /\ loading = FALSE
    /\ tokens = NullTokens
    /\ tokenSelected = NoSelection
    /\ pending = <<[key |-> "key1", latest |-> TRUE]>>
    /\ pc = "idle"
    /\ request = NoRequest
    /\ lost = FALSE
    /\ sent = NoneSent
    /\ call = "fetch"
    /\ answer = NoAnswer
    /\ toast = "none"
    /\ latest = [status |-> "pending", list |-> <<>>]
    /\ fetchFailed = FALSE

ConvNext ==
    \/ \E rawItems \in ConvLists : FetchResolve(1, "ok", rawItems)
    \/ \E i \in 1..2 : calculatePrice(i)

ConvSpec == ConvInit /\ [][ConvNext]_vars

(***************************************************************************)
(* The claims.                                                             *)
(***************************************************************************)
SubmitStages == {"prepare", "sign", "broadcast", "confirm"}

Answered(stage, out) == answer.stage = stage /\ answer.out = out

\* C1: a submit request made while the wallet is disconnected or no asset
\* is selected starts no prepare-transaction request (and so no later step).
C1_SubmitNeedsWalletAndAsset ==
    call = "prepare" => (connected /\ tokenSelected.mint # Null)

\* C2: once the most recently started fetch has answered and no fetch is
\* awaited, the asset list is the one it returned and the selection is of
\* one of its records: an older fetch's late answer is discarded.
C2_LastRequestWins ==
    (latest.status = "ok" /\ pending = <<>>) =>
        /\ tokens = TokensOf(latest.list)
        /\ latest.list # <<>> =>
              \E i \in 1..Len(latest.list) : tokenSelected.mint = latest.list[i].mint

\* C3: the success notification is shown only by the step that received a
\* confirmation without an error; a confirmation with an error ends the
\* submit with the failure notification.
C3_SuccessOnlyWhenConfirmed ==
    /\ toast = "success" => Answered("confirm", "ok")
    /\ Answered("confirm", "err") => (toast = "failed" /\ pc = "idle" /\ ~loading)

C3_Witness == Answered("confirm", "err") /\ toast = "failed"

\* C4: each stage is started only by the step that received the previous
\* stage's success, prepare by the submit request; a failed preparation
\* or a rejected signature ends the submit without starting another stage.
C4_StagesInOrder ==
    /\ call = "prepare" => (answer = NoAnswer /\ pc = "prepare")
    /\ call = "sign" => (Answered("prepare", "ok") /\ pc = "sign")
    /\ call = "broadcast" => (Answered("sign", "ok") /\ pc = "broadcast")
    /\ call = "confirm" => (Answered("broadcast", "ok") /\ pc = "confirm")
    /\ (answer.stage \in {"prepare", "sign"} /\ answer.out # "ok") =>
          (call = "none" /\ pc = "idle")

C4_Witness ==
    \/ Answered("sign", "rejected") /\ call = "none" /\ pc = "idle"
    \/ Answered("prepare", "noTransaction") /\ call = "none" /\ pc = "idle"

\* C5: the step in which a stage of a submit fails leaves the controller
\* ready: not loading, no handler running, the button enabled if connected.
C5_FailureReturnsToReady ==
    (answer.stage \in SubmitStages /\ answer.out # "ok") =>
        /\ ~loading
        /\ pc = "idle"
        /\ connected => ~ButtonDisabled

C5_Witness == Answered("broadcast", "error") /\ connected /\ ~ButtonDisabled

\* C6: every error an outbound operation raises is shown as a failure
\* notification by the step that received it.
C6_EveryErrorNotified ==
    (answer.stage # "none" /\ answer.out # "ok") => toast = "failed"

\* C7: from a failed fetch until a fetch succeeds, the asset list is empty
\* or unknown and no submit request starts a prepare-transaction request.
C7_FetchFailureDisablesSubmit ==
    fetchFailed => (tokens.list = <<>> /\ call # "prepare")

\* C8: no selection is stored whose required quantity is NaN or Infinity.
C8_NoNaNOrInfinitySelected ==
    tokenSelected.price.kind \notin {"NaN", "Infinity"}

\* C9: when the broadcast or the confirmation gets no answer, some step
\* of the program (a timeout, an exhausted retry count) ends the submit.
C9_UnansweredSubmitEnds ==
    (lost /\ pc \in {"broadcast", "confirm"}) => ENABLED (Next /\ pc' = "idle")

\* C10: the step in which a fetch completes leaves the selection made of
\* the first returned record, or no selection if the list is empty.
C10_SelectionAfterFetch ==
    Answered("fetch", "ok") =>
        tokenSelected = IF tokens.list # <<>> THEN DefaultSelection(tokens.list)
                        ELSE NoSelection

\* C11: a submit request made while the wallet is not connected or while
\* no selection exists shows the "connect wallet" notice and changes
\* neither the loading flag, the handler's position, the asset list nor the
\* selection.
C11_RefusedSubmitShowsNotice ==
    [][(SubmitClick /\ (~connected \/ tokenSelected.mint = Null)) =>
          (toast' = "connect" /\ UNCHANGED <<loading, pc, tokens, tokenSelected>>)]_vars

\* C12: a manual pick of a record replaces the whole selection: name,
\* quantity and mint are those of the record picked and of the total,
\* whatever was selected before.
C12_PickReplacesSelection ==
    [][\A i \in 1..3 :
          calculatePrice(i) =>
              tokenSelected' =
                  [name |-> tokens.list[i].symbol,
                   price |-> Price(JsonNum(tokens.list[i].balance),
                                   JsonNum(tokens.list[i].usdc_price)),
                   mint |-> tokens.list[i].mint]]_vars

\* Beta picked by hand; the fetch that listed it had selected Alpha
C12_Witness ==
    /\ tokenSelected.mint = "mintB"
    /\ tokenSelected.name = "BET"
    /\ ~tokens.isNull

\* a positive number
Positive(x) == x.kind = "num" /\ x.n > 0

\* x <= y and x < y on numbers
Leq(x, y) == x.kind = "num" /\ y.kind = "num" /\ x.n * y.d <= y.n * x.d

Less(x, y) == x.kind = "num" /\ y.kind = "num" /\ x.n * y.d < y.n * x.d

\* total * balance / referencePrice as a fraction, for a positive price
Quantity(total, balance, referencePrice) ==
    Fin(total.n * balance.n * referencePrice.d, total.d * balance.d * referencePrice.n)

\* C13: a selection's quantity is totalPrice * balance / usdc_price of the
\* record of the list it was made of, wherever that price is positive
\* (with total 15, balance 100 and price 50: 30).
C13_QuantityIsFormula ==
    tokenSelected.mint # Null =>
        \E i \in 1..Len(tokens.list) :
            /\ tokens.list[i].mint = tokenSelected.mint
            /\ Positive(tokens.list[i].usdc_price) =>
                  tokenSelected.price =
                      Quantity(Fin(15, 1), tokens.list[i].balance, tokens.list[i].usdc_price)

\* the second record, balance 100 worth 50, picked by hand: 30
C13_Witness ==
    /\ tokenSelected.mint = "mint2"
    /\ tokens.list[2].balance = Fin(100, 1)
    /\ tokens.list[2].usdc_price = Fin(50, 1)
    /\ tokenSelected.price = Fin(30, 1)

ConvTotals == {Fin(t, 1) : t \in (0..MaxTotal) \cup {15}}

ConvPositivePrices == {Fin(p, 1) : p \in ConvRefPrices \ {0}}

\* C17: for a record with a positive price, the quantity does not fall
\* when the total rises and does not rise when the price rises; with a
\* positive balance (and total) it strictly rises, respectively falls.
C17_QuantityMonotone ==
    \A i \in 1..Len(tokens.list) :
        LET balance == tokens.list[i].balance
            usdc_price == tokens.list[i].usdc_price
        IN  Positive(usdc_price) =>
              /\ \A a, b \in ConvTotals :
                    /\ Leq(a, b) =>
                          Leq(PriceOf(a, balance, usdc_price), PriceOf(b, balance, usdc_price))
                    /\ (Less(a, b) /\ Positive(balance)) =>
                          Less(PriceOf(a, balance, usdc_price), PriceOf(b, balance, usdc_price))
              /\ \A p, q \in ConvPositivePrices :
                    /\ Leq(p, q) =>
                          Leq(Price(balance, q), Price(balance, p))
                    /\ (Less(p, q) /\ Positive(balance)) =>
                          Less(Price(balance, q), Price(balance, p))
              /\ \A j \in 1..Len(tokens.list) :
                    (tokens.list[j].balance = balance /\ Leq(usdc_price, tokens.list[j].usdc_price)) =>
                        Leq(ManualSelection(tokens.list[j]).price,
                            DefaultSelection(<<tokens.list[i]>>).price)

\* two records of one balance, the second worth more, the second picked:
\* its quantity is below the first one's
C17_Witness ==
    /\ Len(tokens.list) = 2
    /\ Positive(tokens.list[1].balance)
    /\ tokens.list[2].balance = tokens.list[1].balance
    /\ Positive(tokens.list[1].usdc_price)
    /\ Less(tokens.list[1].usdc_price, tokens.list[2].usdc_price)
    /\ tokenSelected = ManualSelection(tokens.list[2])
    /\ Less(tokenSelected.price, DefaultSelection(tokens.list).price)

\* C14: a submit makes at most one prepare-transaction request and one
\* signature request, and at most maxRetries broadcast requests; once it
\* has failed nothing is started or in flight until the next click.
C14_OneAttemptPerSubmit ==
    /\ sent.prepare <= 1
    /\ sent.sign <= 1
    /\ sent.broadcast <= maxRetries
    /\ toast = "failed" => (call = "none" /\ pc = "idle" /\ sent = NoneSent)
    /\ pc = "idle" => sent = NoneSent

C14_Witness ==
    /\ pc = "confirm"
    /\ sent = [prepare |-> 1, sign |-> 1, broadcast |-> 1, confirm |-> 1]

\* C15: a fetch whose endpoint was unreachable, answered with a non-success
\* status, or answered without the item list, has failed.
C15_FetchFailsOnBadAnswer ==
    (answer.stage = "fetch" /\ (answer.out \in FetchErrors \/ answer.status = "nonSuccess")) =>
        fetchFailed

\* C16: a prepare-transaction request that the service answered with a
\* non-success response, with or without a transaction in its body, gives
\* the handler no payload: the submit has failed and asks for no signature.
C16_PrepareFailsOnNonSuccess ==
    (answer.stage = "prepare" /\ answer.status = "nonSuccess") =>
        (pc = "idle" /\ call = "none" /\ toast = "failed")

\* C18: at most one outbound operation is in flight: no two asset fetches
\* at once, and no asset fetch while a submit awaits one of its steps.
C18_OneOutboundOperation ==
    Len(pending) + (IF pc = "idle" THEN 0 ELSE 1) <= 1

\* C19: the mint a submit hands to getPreparedTransaction is one the payer
\* of that request can hold, that is, it came from a fetch made for that
\* same publicKey.
C19_PreparedMintIsPayersOwn ==
    request.mint # Null => request.mint \in MintsOwnedBy(request.publicKey)

\* C20: a selection's mint is the mint of a record of the current asset
\* list; after a fetch that returned no record no earlier selection is left.
C20_SelectionIsInList ==
    tokenSelected.mint # Null =>
        \E i \in 1..Len(tokens.list) : tokens.list[i].mint = tokenSelected.mint

\* C21: a submit is running exactly while loading is true, and no step
\* taken while loading is true starts a submit: no getPreparedTransaction
\* call is made and the request of the running submit is not replaced.
C21_OneSubmitInFlight ==
    [][/\ loading <=> pc # "idle"
       /\ loading => (call' # "prepare" /\ (pc' # "idle" => request' = request))]_vars

C21_Witness ==
    /\ loading
    /\ connected
    /\ pc = "sign"
    /\ tokenSelected.mint # Null
    /\ request.publicKey = publicKey

\* C22: for every record of the asset list, the selection the fetch makes
\* of it by default and the selection a manual pick of it makes are equal
\* in name, price and mint.
C22_DefaultEqualsManual ==
    \A i \in 1..Len(tokens.list) :
        DefaultSelection(<<tokens.list[i]>>) = ManualSelection(tokens.list[i])

====
